---- MODULE Spec2Model ----
(***************************************************************************)
(* Model of the compliance aggregation engine (OrchestratorAgent) and of   *)
(* the FastAPI handlers that drive it.                                     *)
(*                                                                         *)
(* Numbers.  The engine computes with Python floats (IEEE 754 doubles).    *)
(* A confidence is written in hundredths (0.85 is 85) and becomes the      *)
(* nearest double.  A double x is held as [n, d, k], meaning               *)
(*     x * k * 2^FracBits = n * 2^FracBits + d,                            *)
(* so n / k is the decimal the double stands for and d its distance from   *)
(* that decimal; every product, sum and quotient of _calculate_risk is     *)
(* rounded to the nearest double, ties to even.  The overall score is      *)
(* round(x, 1), a whole number of tenths, held in hundredths of a point    *)
(* (37.5 is 3750); a framework score is not rounded and stays a double.    *)
(* datetime.utcnow() reads the variable now, which Tick advances.          *)
(***************************************************************************)
EXTENDS Integers, Sequences, FiniteSets, TLC

(* ------------------------------ bounds -------------------------------- *)
\* longest batch handed to one ingest_findings call
MaxBatch == 2
\* longest finding list the model lets the engine accumulate
MaxFindings == 2
\* last value of the clock
MaxTime == 1
\* number of requests the API serves
MaxHandlers == 2
\* longest finding list of the runs that look at the score alone
MaxScored == 3

(* ------------------------------- units -------------------------------- *)
ConfUnit == 100
ScoreUnit == 100
\* binary digits kept below 1 / k in a double [n, d, k]
FracBits == 60

(* ------------------------------ data model ---------------------------- *)
\* None where a record is expected, where a string is, where a datetime is
NoneVal == [none |-> TRUE]
NoneStr == "<None>"
NoneTime == 0 - 1

Severity == {"low", "medium", "high", "critical"}

ComplianceFramework == {"gdpr", "soc2", "hipaa", "pci_dss", "iso_27001"}

SEVERITY_WEIGHTS ==
    [s \in Severity |->
        CASE s = "low" -> 1
          [] s = "medium" -> 3
          [] s = "high" -> 7
          [] s = "critical" -> 15]

HITL_THRESHOLD_SCORE == 50 * ScoreUnit
HITL_THRESHOLD_CRITICAL == 1

ComplianceFinding(i, sev, conf, fws, t) ==
    [id |-> i, severity |-> sev, confidence |-> conf, frameworks |-> fws,
     detected_at |-> t]

\* The findings callers construct.  f1 comes with two contents, so that the
\* same ID can arrive again with another severity, confidence and framework
\* list; f2 and f3 together weigh 10.0, an overall score of exactly 50.0.
FindingInputs ==
    { ComplianceFinding("f1", "critical", 100, {"hipaa"}, 0),
      ComplianceFinding("f1", "low", 50, {"gdpr", "soc2"}, 1),
      ComplianceFinding("f2", "high", 100, {"gdpr"}, 1),
      ComplianceFinding("f3", "medium", 100, {}, 0) }

FindingIds == { f.id : f \in FindingInputs }

Batches == UNION { [1..n -> FindingInputs] : n \in 0..MaxBatch }

RiskScore(overall, fwScores, n, nCritical, nHigh, t) ==
    [overall_score |-> overall, framework_scores |-> fwScores,
     findings_count |-> n, critical_count |-> nCritical, high_count |-> nHigh,
     last_updated |-> t]

HITLReview(rid, fid, t) ==
    [id |-> rid, finding_id |-> fid, status |-> "pending", reviewer |-> NoneStr,
     notes |-> NoneStr, created_at |-> t, resolved_at |-> NoneTime]

AgentStatus(name, active, t, n) ==
    [agent_name |-> name, is_active |-> active, last_heartbeat |-> t,
     findings_today |-> n, error_count |-> 0]

(* ------------------------------- state -------------------------------- *)
VARIABLES
    findings,        \* OrchestratorAgent.findings
    reviews,         \* OrchestratorAgent.reviews
    agent_statuses,  \* OrchestratorAgent.agent_statuses
    current_risk,    \* OrchestratorAgent._current_risk
    now,             \* the clock datetime.utcnow() reads
    last,            \* the last call on the engine: its name, argument, result
    handlers         \* the API requests in flight

vars == <<findings, reviews, agent_statuses, current_risk, now, last, handlers>>

(* ------------------------------ helpers ------------------------------- *)
Range(s) == { s[i] : i \in DOMAIN s }

IdsOf(fs) == { fs[i].id : i \in DOMAIN fs }

HasSeverity(f, sev) == f.severity = sev

CountSeverity(fs, sev) == Len(SelectSeq(fs, LAMBDA f : HasSeverity(f, sev)))

(* ------------------------------ doubles ------------------------------- *)
Pow2(e) == 2^e

\* 2^e modulo m, for e <= 60, without leaving 32 bits
Pow2Mod(e, m) ==
    IF e <= 30 THEN 2^e % m ELSE ((2^30 % m) * (2^(e - 30) % m)) % m

\* x >= 2^e, for the exact number x = (n + d / 2^FracBits) / k
AtLeastPow2(x, e) ==
    IF e < 0
    THEN x.n * Pow2(0 - e) > x.k \/ (x.n * Pow2(0 - e) = x.k /\ x.d >= 0)
    ELSE x.n > x.k * Pow2(e) \/ (x.n = x.k * Pow2(e) /\ x.d >= 0)

\* the binary exponent of x > 0: 2^e <= x < 2^(e+1)
Exponent(x) ==
    CHOOSE e \in (52 - FracBits)..10 : AtLeastPow2(x, e) /\ ~AtLeastPow2(x, e + 1)

\* x moved by rem2 down or by ulp - rem down to the doubles around it, where
\* rem2 is x modulo two ulps: to the nearer one, to the even one on a tie.
ToGrid(x, ulp, rem2) ==
    LET rem == rem2 % ulp
        up == 2 * rem > ulp \/ (2 * rem = ulp /\ rem2 >= ulp)
    IN  [x EXCEPT !.d = IF up THEN x.d + (ulp - rem) ELSE x.d - rem]

\* The doubles with exponent e are the multiples of 2^(e-52): of
\* ulp = k * 2^(FracBits-52+e) in the units of n * 2^FracBits + d.
NearestAt(x, e) ==
    ToGrid(x, x.k * Pow2(FracBits - 52 + e),
           (Pow2(FracBits - 52 + e)
                * (((x.n % (2 * x.k)) * Pow2Mod(52 - e, 2 * x.k)) % (2 * x.k))
            + x.d) % (2 * x.k * Pow2(FracBits - 52 + e)))

\* the result of a float operation whose exact value is x
Nearest(x) == IF x.n = 0 THEN x ELSE NearestAt(x, Exponent(x))

\* the float a decimal confidence is read as
FromDecimal(c) == Nearest([n |-> c, d |-> 0, k |-> ConfUnit])

LowestConfidence == 0

HighestConfidence == ConfUnit

\* w * x for a weight w, x + y, x / m, x * 100.0
Times(w, x) == Nearest([n |-> w * x.n, d |-> w * x.d, k |-> x.k])

Plus(x, y) == Nearest([n |-> x.n + y.n, d |-> x.d + y.d, k |-> x.k])

Over(x, m) == Nearest([x EXCEPT !.k = x.k * m])

Times100(x) == Nearest([x EXCEPT !.k = x.k \div 100])

\* the normalised weight as it is, not capped
Min_NoCap(x) == x

\* min(100.0, x)
Min(x) ==
    IF x.n > 100 * x.k \/ (x.n = 100 * x.k /\ x.d > 0)
    THEN [n |-> 100 * x.k, d |-> 0, k |-> x.k]
    ELSE x

\* sum(...) adds the terms to 0 from left to right
RECURSIVE SumSeq(_, _)
SumSeq(acc, s) == IF s = <<>> THEN acc ELSE SumSeq(Plus(acc, Head(s)), Tail(s))

\* round(x) without the digit: to the nearest whole point
Round1_Whole(x) ==
    LET q == x.n \div x.k
        r == x.n % x.k
    IN  (IF 2 * r >= x.k THEN q + 1 ELSE q) * ScoreUnit

\* round(x, 1), in hundredths: the tenth nearest to x, the even one when x is
\* a double exactly halfway.
Round1(x) ==
    LET q == (10 * x.n) \div x.k
        r == (10 * x.n) % x.k
        up == 2 * r > x.k \/ (2 * r = x.k /\ (x.d > 0 \/ (x.d = 0 /\ q % 2 = 1)))
    IN  (IF up THEN q + 1 ELSE q) * (ScoreUnit \div 10)

\* SEVERITY_WEIGHTS[severity] * confidence, for every severity and confidence
Weighted ==
    [sev \in Severity, c \in LowestConfidence..HighestConfidence |->
        Times(SEVERITY_WEIGHTS[sev], FromDecimal(c))]

\* sum(SEVERITY_WEIGHTS[f.severity] * f.confidence for f in fs)
TotalWeight(fs) ==
    SumSeq([n |-> 0, d |-> 0, k |-> ConfUnit],
           [i \in DOMAIN fs |-> Weighted[fs[i].severity, fs[i].confidence]])

\* min(100.0, (w / divisor) * 100.0)
Normalize(w, divisor) == Min(Times100(Over(w, divisor)))

FrameworkFindings(fs, fw) == SelectSeq(fs, LAMBDA f : fw \in f.frameworks)

(* ------------------------- _calculate_risk ---------------------------- *)
CalculateRisk(fs, t) ==
    IF fs = <<>>
    THEN RiskScore(0, [fw \in {} |-> 0], 0, 0, 0, t)
    ELSE LET overall == Normalize(TotalWeight(fs), 20)
             scored == { fw \in ComplianceFramework : FrameworkFindings(fs, fw) # <<>> }
             framework_scores ==
                 [fw \in scored |-> Normalize(TotalWeight(FrameworkFindings(fs, fw)), 10)]
         IN  RiskScore(Round1(overall), framework_scores, Len(fs),
                       CountSeverity(fs, "critical"), CountSeverity(fs, "high"), t)

\* _calculate_risk reads nothing but the finding list and the clock.  Its
\* results for the lists the engine can hold are computed once, as a function
\* written out in full (@@ builds the function it returns from the values of
\* its arguments), and looked up from then on; any other list is computed
\* when asked for.
EngineLists == UNION { [1..n -> FindingInputs] : n \in 0..MaxFindings }

EngineRisks == [fs \in EngineLists |-> CalculateRisk(fs, 0)] @@ <<>>

RiskFor(fs, t) ==
    IF fs \in DOMAIN EngineRisks
    THEN [EngineRisks[fs] EXCEPT !.last_updated = t]
    ELSE CalculateRisk(fs, t)

(* ------------------------ _should_trigger_hitl ------------------------ *)
\* _should_trigger_hitl comparing the score with > instead of >=
ShouldTriggerHitl_Strict(risk, new_findings) ==
    IF risk = NoneVal THEN FALSE
    ELSE IF risk.overall_score > HITL_THRESHOLD_SCORE THEN TRUE
    ELSE CountSeverity(new_findings, "critical") >= HITL_THRESHOLD_CRITICAL

ShouldTriggerHitl(risk, new_findings) ==
    IF risk = NoneVal THEN FALSE
    ELSE IF risk.overall_score >= HITL_THRESHOLD_SCORE THEN TRUE
    ELSE CountSeverity(new_findings, "critical") >= HITL_THRESHOLD_CRITICAL

(* ------------------------- _create_hitl_review ------------------------ *)
\* an ID taken from a counter that starts again with every review
FreshReviewId_Restarting(rs) == 1

\* uuid4() gives an ID no earlier review has; reviews are never removed, so
\* the position in the ledger is such an ID.
FreshReviewId(rs) == Len(rs) + 1

RECURSIVE CreateHitlReviews(_, _, _)
CreateHitlReviews(rs, selected, t) ==
    IF selected = <<>> THEN rs
    ELSE CreateHitlReviews(
             Append(rs, HITLReview(FreshReviewId(rs), Head(selected).id, t)),
             Tail(selected), t)

(* --------------------------- ingest_findings -------------------------- *)
\* ingest_findings without the filter on existing_ids
UniqueNew_NoDedup(fs, new_findings) == new_findings

\* ingest_findings filtering on the whole finding instead of its ID
UniqueNew_ByContent(fs, new_findings) ==
    SelectSeq(new_findings, LAMBDA f : f \notin Range(fs))

UniqueNew(fs, new_findings) ==
    LET existing_ids == IdsOf(fs)
    IN  SelectSeq(new_findings, LAMBDA f : f.id \notin existing_ids)

\* every accepted finding of a triggering batch is given a review
NeedsReview_Any(f) == TRUE

NeedsReview(f) == f.severity \in {"critical", "high"}

\* The end of ingest_findings: with the extended list fs and its score risk,
\* the reviews of the accepted findings are created if the trigger says so.
TriggerHitl(eng, unique_new, fs, risk, t) ==
    [findings |-> fs,
     reviews |-> IF ShouldTriggerHitl(risk, unique_new)
                 THEN CreateHitlReviews(eng.reviews, SelectSeq(unique_new, NeedsReview), t)
                 ELSE eng.reviews,
     risk |-> risk]

\* the score taken over the accepted batch alone
Extend_NewOnly(eng, unique_new, fs, t) ==
    TriggerHitl(eng, unique_new, fs, RiskFor(unique_new, t), t)

Extend(eng, unique_new, fs, t) == TriggerHitl(eng, unique_new, fs, RiskFor(fs, t), t)

\* ingest_findings creating reviews for the whole batch, not the accepted part
IngestResult_ReviewBatch(eng, new_findings, t) ==
    LET unique_new == UniqueNew(eng.findings, new_findings)
    IN  Extend(eng, new_findings, eng.findings \o unique_new, t)

\* ingest_findings keeping the score of the list as it was before the call
IngestResult_ScoreBefore(eng, new_findings, t) ==
    LET unique_new == UniqueNew(eng.findings, new_findings)
    IN  [Extend(eng, unique_new, eng.findings \o unique_new, t)
            EXCEPT !.risk = RiskFor(eng.findings, t)]

\* The engine after ingest_findings(new_findings) at time t, from the engine
\* eng = [findings, reviews, risk].
IngestResult(eng, new_findings, t) ==
    LET unique_new == UniqueNew(eng.findings, new_findings)
    IN  Extend(eng, unique_new, eng.findings \o unique_new, t)

\* last records an ingest_findings call: its batch and what it returned
IsIngest(l) == l.op = "ingest_findings"

Engine == [findings |-> findings, reviews |-> reviews, risk |-> current_risk]

\* room is the length the model lets the finding list reach
Ingest(new_findings, room) ==
    /\ Len(findings) + Len(UniqueNew(findings, new_findings)) <= room
    /\ \E res \in {IngestResult(Engine, new_findings, now)} :
        /\ findings' = res.findings
        /\ reviews' = res.reviews
        /\ current_risk' = res.risk
        /\ last' = [op |-> "ingest_findings", new_findings |-> new_findings,
                    ret |-> res.risk]
        /\ UNCHANGED <<agent_statuses, now, handlers>>

IngestFindings(new_findings) == Ingest(new_findings, MaxFindings)

(* ---------------------------- get_risk_score -------------------------- *)
GetRiskScore ==
    LET risk == IF current_risk = NoneVal THEN RiskFor(findings, now)
                ELSE current_risk
    IN  /\ current_risk' = risk
        /\ last' = [op |-> "get_risk_score", ret |-> risk]
        /\ UNCHANGED <<findings, reviews, agent_statuses, now, handlers>>

(* ---------------------------- resolve_review -------------------------- *)
\* The bodies of POST /reviews/{review_id}/resolve (ResolveReviewRequest):
\* status and reviewer are any strings, notes is optional.
ResolveRequests ==
    { [status |-> "approved", reviewer |-> "alice", notes |-> NoneStr],
      [status |-> "dismissed", reviewer |-> "bob", notes |-> "false positive"],
      [status |-> "escalated", reviewer |-> "alice", notes |-> "needs legal"],
      [status |-> "pending", reviewer |-> "bob", notes |-> NoneStr],
      [status |-> "rejected", reviewer |-> "bob", notes |-> "typo"] }

\* The review IDs a caller may name: those of the ledger and one more.
ReviewIdInputs == 1..(MaxFindings + 1)

\* the loop of resolve_review falling back to the last review on a miss
FindReview_LastOnMiss(rs, review_id) ==
    IF \E i \in DOMAIN rs : rs[i].id = review_id
    THEN CHOOSE i \in DOMAIN rs : rs[i].id = review_id
    ELSE Len(rs)

\* position of the first review with this ID, 0 when there is none
FindReview(rs, review_id) ==
    IF \E i \in DOMAIN rs : rs[i].id = review_id
    THEN CHOOSE i \in DOMAIN rs :
             /\ rs[i].id = review_id
             /\ \A j \in DOMAIN rs : rs[j].id = review_id => i <= j
    ELSE 0

\* a resolution that leaves the reviewer of an earlier resolution in place
Resolved_KeepReviewer(review, status, reviewer, notes, t) ==
    [review EXCEPT !.status = status,
                   !.reviewer = IF review.reviewer = NoneStr THEN reviewer
                                ELSE review.reviewer,
                   !.notes = notes, !.resolved_at = t]

Resolved(review, status, reviewer, notes, t) ==
    [review EXCEPT !.status = status, !.reviewer = reviewer, !.notes = notes,
                   !.resolved_at = t]

\* resolve_review refusing a review that is not pending
ResolveResult_PendingOnly(rs, review_id, status, reviewer, notes, t) ==
    LET i == FindReview(rs, review_id)
    IN  IF i = 0 \/ (i # 0 /\ rs[i].status # "pending")
        THEN [reviews |-> rs, ret |-> NoneVal]
        ELSE LET review == Resolved(rs[i], status, reviewer, notes, t)
             IN  [reviews |-> [rs EXCEPT ![i] = review], ret |-> review]

\* The ledger after resolve_review, and what the call returns.
ResolveResult(rs, review_id, status, reviewer, notes, t) ==
    LET i == FindReview(rs, review_id)
    IN  IF i = 0
        THEN [reviews |-> rs, ret |-> NoneVal]
        ELSE LET review == Resolved(rs[i], status, reviewer, notes, t)
             IN  [reviews |-> [rs EXCEPT ![i] = review], ret |-> review]

ResolveReview(review_id, status, reviewer, notes) ==
    LET res == ResolveResult(reviews, review_id, status, reviewer, notes, now)
        i == FindReview(reviews, review_id)
    IN  /\ reviews' = res.reviews
        /\ last' = [op |-> "resolve_review", ret |-> res.ret,
                    was |-> IF i = 0 THEN NoneStr ELSE reviews[i].status]
        /\ UNCHANGED <<findings, agent_statuses, current_risk, now, handlers>>

(* -------------------------- get_pending_reviews ----------------------- *)
GetPendingReviews(rs) == SelectSeq(rs, LAMBDA r : r.status = "pending")

(* ------------------------- get_dashboard_summary ---------------------- *)
\* the length of the slice [:10]
RECENT_FINDINGS == 10

Without(s, i) == SubSeq(s, 1, i - 1) \o SubSeq(s, i + 1, Len(s))

\* the first place of s holding a latest detected_at
FirstLatest(s) ==
    CHOOSE i \in DOMAIN s :
        /\ \A j \in DOMAIN s : s[j].detected_at <= s[i].detected_at
        /\ \A j \in 1..(i - 1) : s[j].detected_at < s[i].detected_at

\* sorted(s, key=lambda x: x.detected_at, reverse=True): the sort is stable,
\* and with reverse=True it still leaves elements of equal key in the order
\* they have in s
RECURSIVE SortedByDetectedAt(_)
SortedByDetectedAt(s) ==
    IF s = <<>> THEN <<>>
    ELSE LET i == FirstLatest(s)
         IN  <<s[i]>> \o SortedByDetectedAt(Without(s, i))

Slice(s, n) == SubSeq(s, 1, IF Len(s) < n THEN Len(s) ELSE n)

DashboardSummary(fs, rs, statuses, risk) ==
    [risk_score |-> risk,
     pending_reviews |-> Len(GetPendingReviews(rs)),
     total_findings |-> Len(fs),
     critical_findings |-> risk.critical_count,
     high_findings |-> risk.high_count,
     agent_statuses |-> statuses,
     recent_findings |-> Slice(SortedByDetectedAt(fs), RECENT_FINDINGS)]

GetDashboardSummary ==
    LET risk == IF current_risk = NoneVal THEN RiskFor(findings, now)
                ELSE current_risk
    IN  /\ current_risk' = risk
        /\ last' = [op |-> "get_dashboard_summary",
                    ret |-> DashboardSummary(findings, reviews, agent_statuses, risk)]
        /\ UNCHANGED <<findings, reviews, agent_statuses, now, handlers>>

(* -------------------------- update_agent_status ----------------------- *)
AgentNames == {"pr_monitor", "slack_monitor", "doc_crawler"}

\* the registry replaced by the one entry
UpdatedStatuses_Alone(statuses, agent_name, is_active, findings_today, t) ==
    [n \in {agent_name} |-> AgentStatus(agent_name, is_active, t, findings_today)]

\* self.agent_statuses[agent_name] = AgentStatus(...)
UpdatedStatuses(statuses, agent_name, is_active, findings_today, t) ==
    [n \in DOMAIN statuses \cup {agent_name} |->
        IF n = agent_name
        THEN AgentStatus(agent_name, is_active, t, findings_today)
        ELSE statuses[n]]

UpdateAgentStatus(agent_name, is_active, findings_today) ==
    /\ agent_statuses' =
           UpdatedStatuses(agent_statuses, agent_name, is_active, findings_today, now)
    /\ last' = [op |-> "update_agent_status", ret |-> NoneVal]
    /\ UNCHANGED <<findings, reviews, current_risk, now, handlers>>

(* -------------------------------- clock ------------------------------- *)
Tick ==
    /\ now < MaxTime
    /\ now' = now + 1
    /\ UNCHANGED <<findings, reviews, agent_statuses, current_risk, last, handlers>>

(* ------------------------------ API handlers -------------------------- *)
\* Every handler is a coroutine on one event loop: it runs without
\* interruption from one await to the next.  analyze_pr awaits the network
\* (the PR diff and file list), so other requests run between its start and
\* the code after the await; the Slack and document detectors await nothing
\* that suspends, and resolve_review awaits nothing at all.
Handlers == 1..MaxHandlers

Idle == [pc |-> "idle"]

\* lifespan(): the three update_agent_status calls before the first request
Lifespan ==
    /\ DOMAIN agent_statuses = {}
    /\ agent_statuses' =
           UpdatedStatuses(
               UpdatedStatuses(
                   UpdatedStatuses(agent_statuses, "pr_monitor", TRUE, 0, now),
                   "slack_monitor", TRUE, 0, now),
               "doc_crawler", TRUE, 0, now)
    /\ last' = [op |-> "update_agent_status", ret |-> NoneVal]
    /\ UNCHANGED <<findings, reviews, current_risk, now, handlers>>

Started == DOMAIN agent_statuses # {}

\* the handler's code storing the score of the list as it was before the
\* findings were appended
AnalyzeTail_ScoreBefore(h, agent_name, detected, fetches) ==
    LET res == IngestResult(Engine, detected, now)
        unique_new == UniqueNew(findings, detected)
    IN  /\ Len(findings) + Len(unique_new) <= MaxFindings
        /\ findings' = res.findings
        /\ reviews' = res.reviews
        /\ current_risk' = RiskFor(findings, now)
        /\ agent_statuses' =
               UpdatedStatuses(agent_statuses, agent_name, TRUE, Len(detected), now)
        /\ last' = [op |-> "update_agent_status", ret |-> NoneVal]
        /\ handlers' = [handlers EXCEPT ![h] =
               [pc |-> "done", code |-> 200, findings |-> detected,
                risk_score |-> res.risk, unique_new |-> unique_new,
                fetches |-> fetches,
                overlapped |-> \E g \in Handlers \ {h} :
                                   handlers[g].pc = "await_analyze_pr"]]
        /\ UNCHANGED now

\* The handler's code after the detector has returned detected:
\* ingest_findings, update_agent_status, the response.  The finished handler
\* keeps its response, the findings its ingest_findings call treated as
\* unseen (unique_new), whether another analyze_pr request was suspended
\* while it ran (overlapped) and, one after the other, whether each fetch
\* its detector made succeeded (fetches).
AnalyzeTail(h, agent_name, detected, fetches) ==
    LET res == IngestResult(Engine, detected, now)
        unique_new == UniqueNew(findings, detected)
    IN  /\ Len(findings) + Len(unique_new) <= MaxFindings
        /\ findings' = res.findings
        /\ reviews' = res.reviews
        /\ current_risk' = res.risk
        /\ agent_statuses' =
               UpdatedStatuses(agent_statuses, agent_name, TRUE, Len(detected), now)
        /\ last' = [op |-> "update_agent_status", ret |-> NoneVal]
        /\ handlers' = [handlers EXCEPT ![h] =
               [pc |-> "done", code |-> 200, findings |-> detected,
                risk_score |-> res.risk, unique_new |-> unique_new,
                fetches |-> fetches,
                overlapped |-> \E g \in Handlers \ {h} :
                                   handlers[g].pc = "await_analyze_pr"]]
        /\ UNCHANGED now

\* What GitHub answers to the two fetches of PRMonitorAgent.analyze_pr.  ok
\* is FALSE when client.get or raise_for_status raises; empty says that the
\* diff text is ""; hits are the findings the scan of the diff text, or of
\* the file names, builds.
DiffAnswers ==
    { a \in [ok : BOOLEAN, empty : BOOLEAN, hits : Batches] :
          a.empty => a.hits = <<>> }

FileAnswers == [ok : BOOLEAN, hits : Batches]

\* _fetch_pr_diff: the diff, or None when the request raised
FetchPrDiff(answer) ==
    IF answer.ok THEN [empty |-> answer.empty, hits |-> answer.hits]
    ELSE NoneVal

\* _fetch_pr_files handing on what the answer holds although the request
\* raised
FetchPrFiles_Stale(answer) ==
    answer.hits

\* _fetch_pr_files, by the findings of the file names it returns: those of
\* the answer, or none (the empty list) when the request raised
FetchPrFiles(answer) ==
    IF answer.ok THEN answer.hits ELSE <<>>

\* POST /analyze/pr up to the first await of pr_monitor.analyze_pr, the
\* fetch of the diff
AnalyzePrStart(h) ==
    /\ Started
    /\ handlers[h].pc = "idle"
    /\ handlers' = [handlers EXCEPT ![h] =
           [pc |-> "await_analyze_pr", fetch |-> "diff"]]
    /\ UNCHANGED <<findings, reviews, agent_statuses, current_risk, now, last>>

\* POST /analyze/pr from the answer to the diff fetch on: without a diff
\* the detector returns its empty list and the handler runs to its end, with
\* one the detector scans it and awaits the fetch of the file list, holding
\* the findings of the scan (detected).
AnalyzePrDiff(h, answer) ==
    LET diff == FetchPrDiff(answer)
    IN  /\ handlers[h].pc = "await_analyze_pr"
        /\ handlers[h].fetch = "diff"
        /\ IF diff = NoneVal \/ diff.empty
           THEN AnalyzeTail(h, "pr_monitor", <<>>, <<answer.ok>>)
           ELSE /\ handlers' = [handlers EXCEPT ![h] =
                       [pc |-> "await_analyze_pr", fetch |-> "files",
                        detected |-> diff.hits, fetches |-> <<answer.ok>>]]
                /\ UNCHANGED <<findings, reviews, agent_statuses,
                               current_risk, now, last>>

\* POST /analyze/pr from the answer to the file-list fetch on
AnalyzePrFinish(h, answer) ==
    /\ handlers[h].pc = "await_analyze_pr"
    /\ handlers[h].fetch = "files"
    /\ Len(handlers[h].detected) + Len(FetchPrFiles(answer)) <= MaxBatch
    /\ AnalyzeTail(h, "pr_monitor",
                   handlers[h].detected \o FetchPrFiles(answer),
                   handlers[h].fetches \o <<answer.ok>>)

\* POST /analyze/slack
AnalyzeSlack(h, detected) ==
    /\ Started
    /\ handlers[h].pc = "idle"
    /\ AnalyzeTail(h, "slack_monitor", detected, <<>>)

\* POST /analyze/document
AnalyzeDocument(h, detected) ==
    /\ Started
    /\ handlers[h].pc = "idle"
    /\ AnalyzeTail(h, "doc_crawler", detected, <<>>)

\* GET /dashboard: get_dashboard_summary awaits nothing.  The finished
\* handler keeps its response and whether an analyze_pr request was suspended
\* while it ran (overlapped).
Dashboard(h) ==
    LET risk == IF current_risk = NoneVal THEN RiskFor(findings, now)
                ELSE current_risk
        summary == DashboardSummary(findings, reviews, agent_statuses, risk)
    IN  /\ Started
        /\ handlers[h].pc = "idle"
        /\ current_risk' = risk
        /\ last' = [op |-> "get_dashboard_summary", ret |-> summary]
        /\ handlers' = [handlers EXCEPT ![h] =
               [pc |-> "done", code |-> 200, summary |-> summary,
                overlapped |-> \E g \in Handlers \ {h} :
                                   handlers[g].pc = "await_analyze_pr"]]
        /\ UNCHANGED <<findings, reviews, agent_statuses, now>>

\* The answer of POST /reviews/{review_id}/resolve to what resolve_review
\* returned: HTTPException(404) for None, the review otherwise.
ResolveResponse(review) ==
    IF review = NoneVal
    THEN [pc |-> "done", code |-> 404]
    ELSE [pc |-> "done", code |-> 200, review |-> review]

\* POST /reviews/{review_id}/resolve: resolve_review awaits nothing.  The
\* finished handler keeps its response, the request it served and the time
\* of its resolve_review call.
ResolveReviewEndpoint(h, review_id, req) ==
    LET res == ResolveResult(reviews, review_id, req.status, req.reviewer, req.notes, now)
        i == FindReview(reviews, review_id)
    IN  /\ Started
        /\ handlers[h].pc = "idle"
        /\ reviews' = res.reviews
        /\ last' = [op |-> "resolve_review", ret |-> res.ret,
                    was |-> IF i = 0 THEN NoneStr ELSE reviews[i].status]
        /\ handlers' = [handlers EXCEPT ![h] =
               ResolveResponse(res.ret)
                   @@ [review_id |-> review_id, request |-> req, at |-> now]]
        /\ UNCHANGED <<findings, agent_statuses, current_risk, now>>

(* ---------------------------- specification --------------------------- *)
Init ==
    /\ findings = <<>>
    /\ reviews = <<>>
    /\ agent_statuses = [n \in {} |-> NoneVal]
    /\ current_risk = NoneVal
    /\ now = 0
    /\ last = [op |-> "init"]
    /\ handlers = [h \in Handlers |-> Idle]

Next ==
    \/ \E b \in Batches : IngestFindings(b)
    \/ \E review_id \in ReviewIdInputs, req \in ResolveRequests :
           ResolveReview(review_id, req.status, req.reviewer, req.notes)
    \/ GetRiskScore
    \/ GetDashboardSummary
    \/ Tick

Spec == Init /\ [][Next]_vars

\* Ingestion alone: the finding list, the score and the reviews it creates.
NextIngest ==
    \/ \E b \in Batches : IngestFindings(b)
    \/ GetRiskScore
    \/ Tick

SpecIngest == Init /\ [][NextIngest]_vars

\* The engine behind the API: MaxHandlers requests, each served once, run
\* as coroutines on the event loop.
NextApi ==
    \/ Lifespan
    \/ \E h \in Handlers : AnalyzePrStart(h)
    \/ \E h \in Handlers, answer \in DiffAnswers : AnalyzePrDiff(h, answer)
    \/ \E h \in Handlers, answer \in FileAnswers : AnalyzePrFinish(h, answer)
    \/ \E h \in Handlers, b \in Batches : AnalyzeSlack(h, b)
    \/ \E h \in Handlers, b \in Batches : AnalyzeDocument(h, b)
    \/ \E h \in Handlers, review_id \in ReviewIdInputs, req \in ResolveRequests :
           ResolveReviewEndpoint(h, review_id, req)
    \/ \E h \in Handlers : Dashboard(h)

SpecApi == Init /\ [][NextApi]_vars

\* The score alone, over findings as the detectors emit them: confidences
\* 0.6 (slack_monitor.py:80), 0.8 and 0.95 (pr_monitor.py:81, :99) and 0.85
\* (doc_crawler.py:148), next to 0.5; s5 and s6 list no framework.
ScoreInputs ==
    { ComplianceFinding("s1", "low", 60, {"gdpr"}, 0),
      ComplianceFinding("s2", "low", 80, {"gdpr"}, 0),
      ComplianceFinding("s3", "low", 95, {"gdpr", "soc2"}, 0),
      ComplianceFinding("s4", "critical", 85, {"hipaa"}, 0),
      ComplianceFinding("s5", "medium", 50, {}, 0),
      ComplianceFinding("s6", "medium", 50, {}, 0) }

\* one finding a call, or none
ScoreBatches == {<<>>} \cup { <<f>> : f \in ScoreInputs }

NextScore ==
    \/ \E b \in ScoreBatches : Ingest(b, MaxScored)
    \/ GetRiskScore

SpecScore == Init /\ [][NextScore]_vars

\* Resolve requests alone, on a server that has started and has served one
\* POST /analyze/slack request before them, whose message held one finding.
InitResolve ==
    \E b \in { <<f>> : f \in FindingInputs } :
        \E res \in {IngestResult([findings |-> <<>>, reviews |-> <<>>, risk |-> NoneVal], b, 0)} :
            /\ findings = res.findings
            /\ reviews = res.reviews
            /\ current_risk = res.risk
            /\ agent_statuses =
                   [n \in AgentNames |->
                       AgentStatus(n, TRUE, 0, IF n = "slack_monitor" THEN Len(b) ELSE 0)]
            /\ now = 0
            /\ last = [op |-> "update_agent_status", ret |-> NoneVal]
            /\ handlers = [h \in Handlers |-> Idle]

NextResolve ==
    \/ \E h \in Handlers, review_id \in ReviewIdInputs, req \in ResolveRequests :
           ResolveReviewEndpoint(h, review_id, req)
    \/ Tick

SpecResolve == InitResolve /\ [][NextResolve]_vars

\* The engine with its registry under direct calls, the clock standing still:
\* one finding a call or none, and update_agent_status as the server calls
\* it, with is_active=True.
NextEngine ==
    \/ \E b \in {<<>>} \cup { <<f>> : f \in FindingInputs } : IngestFindings(b)
    \/ \E review_id \in ReviewIdInputs, req \in ResolveRequests :
           ResolveReview(review_id, req.status, req.reviewer, req.notes)
    \/ \E n \in AgentNames, k \in 0..MaxBatch : UpdateAgentStatus(n, TRUE, k)
    \/ GetRiskScore
    \/ GetDashboardSummary

SpecEngine == Init /\ [][NextEngine]_vars

\* The agent status registry under direct calls.
NextRegistry ==
    \/ \E n \in AgentNames, a \in BOOLEAN, k \in 0..MaxBatch :
           UpdateAgentStatus(n, a, k)
    \/ Tick

SpecRegistry == Init /\ [][NextRegistry]_vars

(* ============================== claims ================================ *)
ReviewStatuses == {"pending", "approved", "dismissed", "escalated"}

ResolvedStatuses == ReviewStatuses \ {"pending"}

\* two RiskScores equal apart from last_updated
SameScore(a, b) == [a EXCEPT !.last_updated = 0] = [b EXCEPT !.last_updated = 0]

\* the step is an ingest_findings call (Tick keeps last, and moves the clock)
IngestStep == IsIngest(last') /\ now' = now

\* the step is the call ingest_findings(last'.new_findings)
IngestCall == IngestStep /\ IngestFindings(last'.new_findings)

WithId(fs, x) == SelectSeq(fs, LAMBDA f : f.id = x)

ReviewsOf(rs, x) == SelectSeq(rs, LAMBDA r : r.finding_id = x)

PendingOf(rs, x) == SelectSeq(ReviewsOf(rs, x), LAMBDA r : r.status = "pending")

\* what a step appended to a list
Appended(before, after) == SubSeq(after, Len(before) + 1, Len(after))

\* C1: after a call ingest_findings(F), a second call ingest_findings(F), at
\* the same or any later time, returns the RiskScore the first call returned
\* apart from last_updated, and adds no finding and no review.
C1_IngestIdempotent ==
    [][IngestCall =>
          LET F == last'.new_findings
          IN  \A t \in now..MaxTime :
                  \A second \in {IngestResult([findings |-> findings', reviews |-> reviews',
                                               risk |-> current_risk'], F, t)} :
                      /\ second.findings = findings'
                      /\ second.reviews = reviews'
                      /\ SameScore(second.risk, last'.ret)]_vars

\* C1 witness: the last call was given a non-empty batch all of whose
\* findings had been stored, with the same content, by a call at an earlier
\* time; the finding list is that batch and the reviews are those of the
\* earlier time.
C1_Witness ==
    /\ IsIngest(last)
    /\ last.new_findings # <<>>
    /\ findings = last.new_findings
    /\ reviews # <<>>
    /\ \A i \in DOMAIN reviews : reviews[i].created_at < last.ret.last_updated

\* C2: a finding of the batch whose ID is already in the finding list is
\* dropped, whatever its content: the call returns a RiskScore, the stored
\* findings of that ID are the same as before, no review is created for that
\* ID, and a batch of known IDs only leaves the finding list as it was.
C2_DuplicateDropped ==
    [][IngestCall =>
          LET b == last'.new_findings
              seen == { i \in DOMAIN b : b[i].id \in IdsOf(findings) }
          IN  /\ last'.ret # NoneVal
              /\ \A i \in seen :
                     /\ WithId(findings', b[i].id) = WithId(findings, b[i].id)
                     /\ ReviewsOf(reviews', b[i].id) = ReviewsOf(reviews, b[i].id)
              /\ (seen = DOMAIN b) => (findings' = findings /\ reviews' = reviews)]_vars

\* C2 witness: the last call was offered a finding whose ID was stored with
\* another content, and only such findings; the list still holds one finding,
\* with the content of its first ingestion, and the call's score counts one.
C2_Witness ==
    /\ IsIngest(last)
    /\ last.new_findings # <<>>
    /\ Len(findings) = 1
    /\ \A i \in DOMAIN last.new_findings :
           /\ last.new_findings[i].id = findings[1].id
           /\ last.new_findings[i] # findings[1]
    /\ last.ret.findings_count = 1

\* C3: the finding list holds at most one finding per ID.
C3_OneFindingPerId ==
    \A i, j \in DOMAIN findings : findings[i].id = findings[j].id => i = j

\* C4: an ingest_findings call creates reviews only at the end of the ledger;
\* if the recomputed overall score is >= 50.0 or a newly accepted finding is
\* CRITICAL, it creates one pending review per newly accepted CRITICAL or HIGH
\* finding, in order, and otherwise none.  One CRITICAL finding into an empty
\* engine gives exactly one pending review for it, one LOW finding gives none.
C4_ReviewCreationRule ==
    [][IngestCall =>
              LET b == last'.new_findings
                  accepted == SelectSeq(b, LAMBDA f : f.id \notin IdsOf(findings))
                  created == Appended(reviews, reviews')
                  wanted == { i \in DOMAIN accepted :
                                 accepted[i].severity \in {"critical", "high"} }
                  triggered ==
                      \/ current_risk'.overall_score >= 50 * ScoreUnit
                      \/ \E i \in DOMAIN accepted : accepted[i].severity = "critical"
              IN  /\ SubSeq(reviews', 1, Len(reviews)) = reviews
                  /\ triggered =>
                         /\ Len(created) = Cardinality(wanted)
                         /\ \A k \in DOMAIN created :
                                /\ created[k].status = "pending"
                                /\ \E i \in wanted :
                                       /\ Cardinality({ j \in wanted : j <= i }) = k
                                       /\ created[k].finding_id = accepted[i].id
                         /\ \A k, m \in DOMAIN created :
                                created[k].id = created[m].id => k = m
                  /\ ~triggered => created = <<>>
                  /\ (findings = <<>> /\ reviews = <<>> /\ Len(b) = 1) =>
                         /\ b[1].severity = "critical" =>
                                /\ Len(reviews') = 1
                                /\ reviews'[1].finding_id = b[1].id
                                /\ reviews'[1].status = "pending"
                         /\ b[1].severity = "low" => reviews' = <<>>]_vars

\* C4 witness: the last call accepted one finding, a HIGH one, into a list
\* without CRITICAL findings; the overall score it computed is exactly 50.0
\* and it created the finding's pending review.
C4_Witness ==
    /\ IsIngest(last)
    /\ Len(last.new_findings) = 1
    /\ last.new_findings[1] = findings[Len(findings)]
    /\ Len(findings) > 1
    /\ last.ret.overall_score = 50 * ScoreUnit
    /\ last.ret.critical_count = 0
    /\ findings[Len(findings)].severity = "high"
    /\ Len(reviews) = 1
    /\ reviews[1].finding_id = findings[Len(findings)].id
    /\ reviews[1].status = "pending"
    /\ reviews[1].created_at = last.ret.last_updated

\* C5: no finding ID has more than one pending review.
C5_OnePendingReviewPerFinding ==
    \A x \in FindingIds : Len(PendingOf(reviews, x)) <= 1

\* C6: every review's status is one of pending, approved, dismissed,
\* escalated.
C6_StatusInDomain ==
    \A i \in DOMAIN reviews : reviews[i].status \in ReviewStatuses

KnownReviewIds(rs) == { rs[i].id : i \in DOMAIN rs }

\* C7: resolve_review with a review ID that is not in the ledger returns
\* None, which the API answers with 404, and leaves the reviews, the findings
\* and the score as they were.
C7_UnknownReviewNotFound ==
    [][\A review_id \in ReviewIdInputs \ KnownReviewIds(reviews), req \in ResolveRequests :
          (last'.op = "resolve_review"
           /\ ResolveReview(review_id, req.status, req.reviewer, req.notes))
              => /\ last'.ret = NoneVal
                 /\ ResolveResponse(last'.ret).code = 404
                 /\ reviews' = reviews
                 /\ findings' = findings
                 /\ current_risk' = current_risk]_vars

\* C7 witness: the last call named an unknown review and returned None while
\* the ledger held a review.
C7_Witness ==
    /\ reviews # <<>>
    /\ last.op = "resolve_review"
    /\ last.ret = NoneVal
    /\ last.was = NoneStr

\* C8: resolve_review on a review that is not pending succeeds and
\* overwrites status, reviewer, notes and resolved_at with the values of the
\* call, leaving the other fields, and returns the review.
C8_ResolveOverwrites ==
    [][\A review_id \in ReviewIdInputs, req \in ResolveRequests :
          (last'.op = "resolve_review"
           /\ ResolveReview(review_id, req.status, req.reviewer, req.notes))
              => \A i \in DOMAIN reviews :
                     (reviews[i].id = review_id /\ reviews[i].status # "pending")
                         => /\ reviews'[i].status = req.status
                            /\ reviews'[i].reviewer = req.reviewer
                            /\ reviews'[i].notes = req.notes
                            /\ reviews'[i].resolved_at = now
                            /\ reviews'[i].id = reviews[i].id
                            /\ reviews'[i].finding_id = reviews[i].finding_id
                            /\ reviews'[i].created_at = reviews[i].created_at
                            /\ last'.ret = reviews'[i]]_vars

\* C8 witness: the last call moved a review from one resolved status to
\* another one, at a later time than its creation.
C8_Witness ==
    /\ last.op = "resolve_review"
    /\ last.ret # NoneVal
    /\ last.was \in ResolvedStatuses
    /\ last.ret.status \in ResolvedStatuses
    /\ last.ret.status # last.was
    /\ last.ret.resolved_at > last.ret.created_at

\* C9: update_agent_status creates the entry on the first call for a name and
\* adds findings_today to the stored count on every later call; every call sets
\* last_heartbeat to the current time.
C9_StatusAccumulates ==
    [][\A n \in AgentNames, a \in BOOLEAN, k \in 0..MaxBatch :
          UpdateAgentStatus(n, a, k)
              => /\ n \in DOMAIN agent_statuses'
                 /\ agent_statuses'[n].last_heartbeat = now
                 /\ agent_statuses'[n].findings_today =
                        k + (IF n \in DOMAIN agent_statuses
                             THEN agent_statuses[n].findings_today ELSE 0)]_vars

Analyzed(h) == handlers[h].pc = "done" /\ handlers[h].code = 200
                   /\ "findings" \in DOMAIN handlers[h]

\* C10: of two analyse requests in flight at the same time whose batches share
\* a finding ID, at most one treats the finding as unseen, and the finding is
\* appended once and reviewed at most once.
C10_ConcurrentIngestAtomic ==
    \A h1, h2 \in Handlers :
        (h1 # h2 /\ Analyzed(h1) /\ Analyzed(h2) /\ handlers[h1].overlapped)
            => \A x \in IdsOf(handlers[h1].findings) \cap IdsOf(handlers[h2].findings) :
                   /\ ~(x \in IdsOf(handlers[h1].unique_new)
                         /\ x \in IdsOf(handlers[h2].unique_new))
                   /\ Len(WithId(findings, x)) = 1
                   /\ Len(ReviewsOf(reviews, x)) <= 1
\* the sum of weight * confidence over a list, in exact arithmetic (the
\* confidences in hundredths)
RECURSIVE WeightSum(_)
WeightSum(fs) ==
    IF fs = <<>> THEN 0
    ELSE SEVERITY_WEIGHTS[Head(fs).severity] * Head(fs).confidence + WeightSum(Tail(fs))

Clamp(x, cap) == IF x > cap THEN cap ELSE x

\* divisor * ConfUnit times min(100, WeightSum / divisor * 100)
Reference(fs, divisor) == Clamp(100 * WeightSum(fs), 100 * divisor * ConfUnit)

Abs(x) == IF x < 0 THEN 0 - x ELSE x

\* 20 * ConfUnit * ScoreUnit times the distance of an overall score from the
\* reference formula
OverallGap(fs, risk) ==
    Abs(risk.overall_score * 20 * ConfUnit - ScoreUnit * Reference(fs, 20))

\* a framework score is the double the formula gives: it stands for the
\* formula's value and lies within 2^-40 of it
FrameworkMatches(fs, fw, x) ==
    /\ x.n * 10 * ConfUnit = x.k * Reference(FrameworkFindings(fs, fw), 10)
    /\ Abs(x.d) <= x.k * Pow2(FracBits - 40)

\* everything of the reference formula but the overall score
MatchesBesideOverall(fs, risk) ==
    /\ DOMAIN risk.framework_scores =
           { fw \in ComplianceFramework : \E i \in DOMAIN fs : fw \in fs[i].frameworks }
    /\ \A fw \in DOMAIN risk.framework_scores :
           FrameworkMatches(fs, fw, risk.framework_scores[fw])
    /\ risk.findings_count = Len(fs)
    /\ risk.critical_count = Cardinality({ i \in DOMAIN fs : fs[i].severity = "critical" })
    /\ risk.high_count = Cardinality({ i \in DOMAIN fs : fs[i].severity = "high" })

ZeroScore(risk) ==
    /\ risk.overall_score = 0
    /\ DOMAIN risk.framework_scores = {}
    /\ risk.findings_count = 0 /\ risk.critical_count = 0 /\ risk.high_count = 0

\* C11 as stated: the score held for the finding list is the reference
\* formula's, the overall score being min(100, sum / 20 * 100) itself.
C11_ScoreIsFormula ==
    current_risk # NoneVal =>
        IF findings = <<>> THEN ZeroScore(current_risk)
        ELSE /\ OverallGap(findings, current_risk) = 0
             /\ MatchesBesideOverall(findings, current_risk)

\* C11, amended: the score held for the finding list is the reference
\* formula's with the overall score rounded to one decimal place: a whole
\* number of tenths at most 0.05 away from min(100, sum / 20 * 100); a
\* framework score is not rounded; the empty list has the zero score.
C11_ScoreIsRoundedFormula ==
    current_risk # NoneVal =>
        IF findings = <<>> THEN ZeroScore(current_risk)
        ELSE /\ current_risk.overall_score % (ScoreUnit \div 10) = 0
             /\ OverallGap(findings, current_risk) <= ConfUnit * ScoreUnit
             /\ MatchesBesideOverall(findings, current_risk)

\* one CRITICAL finding of confidence 0.85 listing HIPAA was ingested: the
\* formula gives 63.75, the score is 63.7, and HIPAA is capped at 100
C11_Witness ==
    /\ IsIngest(last)
    /\ Len(findings) = 1
    /\ findings[1].severity = "critical" /\ findings[1].confidence = 85
    /\ 5 * WeightSum(findings) = 6375
    /\ current_risk.overall_score = 6370
    /\ current_risk.framework_scores = [fw \in {"hipaa"} |-> [n |-> 1000, d |-> 0, k |-> 10]]
    /\ current_risk.critical_count = 1


\* a double lies in [0, 100]
InRange(x) ==
    /\ x.n > 0 \/ (x.n = 0 /\ x.d >= 0)
    /\ x.n < 100 * x.k \/ (x.n = 100 * x.k /\ x.d <= 0)

ScoresInRange(risk) ==
    /\ 0 <= risk.overall_score /\ risk.overall_score <= 100 * ScoreUnit
    /\ \A fw \in DOMAIN risk.framework_scores : InRange(risk.framework_scores[fw])

\* C12: in every reachable state the overall score and every framework
\* score, as stored and as returned by the last call, lie in [0, 100].
C12_ScoresInRange ==
    /\ current_risk # NoneVal => ScoresInRange(current_risk)
    /\ last.op \in {"ingest_findings", "get_risk_score"} => ScoresInRange(last.ret)

\* the weights of the ingested findings normalise to more than 100, overall
\* and for HIPAA, and both scores are 100
C12_Witness ==
    /\ IsIngest(last)
    /\ 100 * WeightSum(findings) > 100 * 20 * ConfUnit
    /\ 100 * WeightSum(FrameworkFindings(findings, "hipaa")) > 100 * 10 * ConfUnit
    /\ current_risk.overall_score = 100 * ScoreUnit
    /\ current_risk.framework_scores["hipaa"] = [n |-> 1000, d |-> 0, k |-> 10]


\* before is a prefix of after
IsPrefix(before, after) ==
    Len(before) <= Len(after) /\ SubSeq(after, 1, Len(before)) = before

\* C13: no step lowers the overall score the engine holds, which is the
\* score the last ingest_findings call returned, so each ingest_findings call
\* returns at least what the call before it returned; and every step keeps
\* the findings there are, in their places.
C13_ScoreMonotone ==
    [][/\ IsPrefix(findings, findings')
       /\ IngestStep => last'.ret = current_risk'
       /\ (current_risk # NoneVal /\ current_risk' # NoneVal) =>
              current_risk'.overall_score >= current_risk.overall_score]_vars

\* the second of two ingest_findings calls, one finding each, returned a
\* higher overall score than the first
C13_Witness ==
    /\ IsIngest(last)
    /\ Len(findings) = 2
    /\ last.new_findings = <<findings[2]>>
    /\ last.ret.overall_score > CalculateRisk(<<findings[1]>>, 0).overall_score
    /\ last.ret.overall_score < 100 * ScoreUnit


\* the step is a get_risk_score call
GetStep == last'.op = "get_risk_score" /\ now' = now

\* C14: ingest_findings stores and returns the score of the whole finding
\* list; the stored score is at every moment the score of the current list,
\* apart from last_updated; get_risk_score returns that score, the zero score
\* on an engine without findings, and changes neither findings nor reviews.
C14_ScoreDerivedFromFindings ==
    [][/\ IngestStep =>
              last'.ret = current_risk' /\ current_risk' = RiskFor(findings', now)
       /\ current_risk' # NoneVal => SameScore(current_risk', RiskFor(findings', 0))
       /\ GetStep =>
              /\ SameScore(last'.ret, RiskFor(findings, 0))
              /\ findings = <<>> => ZeroScore(last'.ret)
              /\ findings' = findings /\ reviews' = reviews]_vars

\* get_risk_score was called on an engine holding two findings, after the
\* clock had moved on from the ingestion that scored them
C14_Witness ==
    /\ last.op = "get_risk_score"
    /\ Len(findings) = 2
    /\ last.ret.findings_count = 2
    /\ last.ret.last_updated < now
    /\ last.ret.overall_score > 0


\* the orders in which the findings of a list can have been accepted
Orders(fs) ==
    { [i \in DOMAIN fs |-> fs[p[i]]] :
        p \in { q \in [DOMAIN fs -> DOMAIN fs] :
                   \A i, j \in DOMAIN fs : q[i] = q[j] => i = j } }

\* C15: an engine holding distinct findings holds the score, apart from
\* last_updated, of every engine that accepted the same findings in another
\* order.
C15_ScoreOrderFree ==
    (current_risk # NoneVal /\ Cardinality(IdsOf(findings)) = Len(findings)) =>
        \A other \in Orders(findings) : SameScore(current_risk, CalculateRisk(other, 0))


\* the place of s holding a latest detected_at, the last of them
LastLatest(s) ==
    CHOOSE i \in DOMAIN s :
        /\ \A j \in DOMAIN s : s[j].detected_at <= s[i].detected_at
        /\ \A j \in (i + 1)..Len(s) : s[j].detected_at < s[i].detected_at

\* the findings by detection time, latest first, and of those detected at
\* the same time the one ingested later first
RECURSIVE LatestFirst(_)
LatestFirst(s) ==
    IF s = <<>> THEN <<>>
    ELSE LET i == LastLatest(s)
         IN  <<s[i]>> \o LatestFirst(Without(s, i))

\* C16: the summary get_dashboard_summary returned counts the pending
\* reviews and the findings, and lists the min(10, n) latest detected
\* findings, latest first, of equal detection times the later ingested first.
C16_DashboardSummary ==
    last.op = "get_dashboard_summary" =>
        /\ last.ret.pending_reviews =
               Cardinality({ i \in DOMAIN reviews : reviews[i].status = "pending" })
        /\ last.ret.total_findings = Len(findings)
        /\ last.ret.recent_findings =
               SubSeq(LatestFirst(findings), 1, IF Len(findings) < 10 THEN Len(findings) ELSE 10)


\* C17: in every reachable state a review has a resolution time exactly when
\* its status is not pending.
C17_ResolvedAtIffNotPending ==
    \A i \in DOMAIN reviews :
        (reviews[i].resolved_at # NoneTime) <=> (reviews[i].status # "pending")


\* C18: in every reachable state each review's finding_id is the ID of a
\* finding in the finding list whose severity is CRITICAL or HIGH.
C18_ReviewsPointAtSevereFindings ==
    \A i \in DOMAIN reviews :
        \E j \in DOMAIN findings :
            /\ findings[j].id = reviews[i].finding_id
            /\ findings[j].severity \in {"critical", "high"}

\* a batch holding a CRITICAL and a MEDIUM finding triggered review creation:
\* the CRITICAL finding has a review, the MEDIUM one has none
C18_Witness ==
    /\ IsIngest(last)
    /\ findings = last.new_findings
    /\ \E i, j \in DOMAIN findings :
           /\ findings[i].severity = "critical" /\ findings[j].severity = "medium"
           /\ ReviewsOf(reviews, findings[i].id) # <<>>
           /\ ReviewsOf(reviews, findings[j].id) = <<>>


\* handler h has answered GET /dashboard
Summarized(h) == handlers[h].pc = "done" /\ "summary" \in DOMAIN handlers[h]

\* C19: every answer of GET /dashboard, whatever requests are in flight,
\* shows the finding list of one moment and the score of that list:
\* total_findings is the length of the list and the score's findings_count,
\* critical_findings and high_findings count the CRITICAL and HIGH findings of
\* the list, and the score is the score of the list.
C19_ConsistentSnapshot ==
    [][\A h \in Handlers :
          (handlers[h].pc = "idle" /\ Summarized(h)') =>
              LET s == handlers'[h].summary
              IN  /\ s.total_findings = Len(findings)
                  /\ s.total_findings = s.risk_score.findings_count
                  /\ s.critical_findings = CountSeverity(findings, "critical")
                  /\ s.high_findings = CountSeverity(findings, "high")
                  /\ Range(s.recent_findings) = Range(findings)
                  /\ SameScore(s.risk_score, RiskFor(findings, 0))
                  /\ findings' = findings]_vars

\* GET /dashboard was answered while a POST /analyze/pr request was suspended
\* in its await; the answer shows the empty list and the zero score, and the
\* suspended request has since ingested its findings
C19_Witness ==
    \E h, g \in Handlers :
        /\ Summarized(h) /\ handlers[h].overlapped
        /\ handlers[h].summary.total_findings = 0
        /\ ZeroScore(handlers[h].summary.risk_score)
        /\ Analyzed(g) /\ handlers[g].unique_new # <<>>
        /\ current_risk.findings_count = Len(findings) /\ Len(findings) > 0


\* handler h has answered a resolve request for review x with the review
ResolvedBy(h, x) ==
    /\ handlers[h].pc = "done" /\ handlers[h].code = 200
    /\ "request" \in DOMAIN handlers[h]
    /\ handlers[h].review_id = x

\* the review has its status, reviewer, notes and resolution time from the
\* call of handler h
AllFrom(review, h) ==
    /\ review.status = handlers[h].request.status
    /\ review.reviewer = handlers[h].request.reviewer
    /\ review.notes = handlers[h].request.notes
    /\ review.resolved_at = handlers[h].at

\* C20: whatever the order in which the resolve requests for one review are
\* served, the review has its status, reviewer, notes and resolution time all
\* from the same one of them.
C20_ResolveNotMixed ==
    \A x \in ReviewIdInputs :
        (\E h \in Handlers : ResolvedBy(h, x)) =>
            \E h \in Handlers :
                ResolvedBy(h, x) /\ AllFrom(reviews[FindReview(reviews, x)], h)

\* two requests resolved the same review, with different statuses, reviewers
\* and notes and at different times; the review is as the later one left it
C20_Witness ==
    \E h, g \in Handlers, x \in ReviewIdInputs :
        /\ ResolvedBy(h, x) /\ ResolvedBy(g, x)
        /\ handlers[h].request.status # handlers[g].request.status
        /\ handlers[h].request.reviewer # handlers[g].request.reviewer
        /\ handlers[h].request.notes # handlers[g].request.notes
        /\ handlers[h].at < handlers[g].at
        /\ AllFrom(reviews[FindReview(reviews, x)], g)


\* the reviews changed in nothing but status, reviewer, notes and
\* resolved_at, and only at the places in touched
OnlyResolved(before, after, touched) ==
    \A i \in DOMAIN before :
        /\ after[i].id = before[i].id
        /\ after[i].finding_id = before[i].finding_id
        /\ after[i].created_at = before[i].created_at
        /\ i \notin touched => after[i] = before[i]

\* C21: every step keeps the findings there are, unchanged and in their
\* places, and the reviews there are, with their id and finding_id; review
\* IDs are pairwise distinct; a resolve_review call changes no review but
\* the one it names, and no other call changes a review.
C21_AppendOnly ==
    [][/\ IsPrefix(findings, findings')
       /\ Len(reviews) <= Len(reviews')
       /\ OnlyResolved(reviews, reviews',
              IF last'.op = "resolve_review" /\ last'.ret # NoneVal
              THEN { i \in DOMAIN reviews : reviews[i].id = last'.ret.id }
              ELSE {})
       /\ \A i, j \in DOMAIN reviews' : reviews'[i].id = reviews'[j].id => i = j]_vars

\* resolve_review has resolved the second of two reviews, the first is still
\* as it was created, and the registry has an entry
C21_Witness ==
    /\ last.op = "resolve_review"
    /\ Len(reviews) = 2 /\ Len(findings) = 2
    /\ last.ret = reviews[2]
    /\ reviews[2].status = "approved"
    /\ reviews[1] = HITLReview(reviews[1].id, findings[1].id, reviews[1].created_at)
    /\ DOMAIN agent_statuses # {}


\* C22: a review for a finding ID is created only by the ingest_findings
\* call that accepts the ID: no step adds a review for an ID the finding list
\* already holds; and a call whose recomputed overall score is below 50.0 and
\* which accepts no CRITICAL finding leaves the HIGH findings it accepts
\* without a review.  So such a HIGH finding has no review then or later.
C22_ReviewOnlyOnAcceptance ==
    [][/\ \A x \in IdsOf(findings) :
              Len(ReviewsOf(reviews', x)) = Len(ReviewsOf(reviews, x))
       /\ IngestCall =>
              LET accepted == Appended(findings, findings')
              IN  (/\ current_risk'.overall_score < HITL_THRESHOLD_SCORE
                   /\ CountSeverity(accepted, "critical") = 0)
                      => \A i \in DOMAIN accepted :
                             ReviewsOf(reviews', accepted[i].id) = <<>>]_vars

\* a HIGH finding was accepted without a review by an earlier call; the last
\* call submitted it again together with a CRITICAL finding, the overall
\* score is now at least 50.0, the CRITICAL finding has a review and the
\* HIGH one still has none
C22_Witness ==
    /\ IsIngest(last)
    /\ Len(findings) = 2 /\ Len(last.new_findings) = 2
    /\ findings[1].severity = "high"
    /\ findings[1] \in Range(last.new_findings)
    /\ findings[2].severity = "critical"
    /\ current_risk.overall_score >= HITL_THRESHOLD_SCORE
    /\ ReviewsOf(reviews, findings[2].id) # <<>>
    /\ ReviewsOf(reviews, findings[1].id) = <<>>


\* C23: update_agent_status leaves findings, reviews and score as they are;
\* ingest_findings and resolve_review leave every AgentStatus as it is; no
\* step removes an entry of the registry.
C23_RegistryApart ==
    [][/\ last'.op = "update_agent_status" =>
              /\ findings' = findings
              /\ reviews' = reviews
              /\ current_risk' = current_risk
       /\ last'.op \in {"ingest_findings", "resolve_review"} =>
              agent_statuses' = agent_statuses
       /\ DOMAIN agent_statuses \subseteq DOMAIN agent_statuses']_vars

\* update_agent_status has run for a second agent on an engine that holds
\* findings, a score and a resolved review
C23_Witness ==
    /\ last.op = "update_agent_status"
    /\ Cardinality(DOMAIN agent_statuses) = 2
    /\ findings # <<>>
    /\ current_risk # NoneVal
    /\ \E i \in DOMAIN reviews : reviews[i].status = "approved"

(* ------------------------------------------------------------------ *)
\* the fetches of a finished POST /analyze/pr request, none for any other
FetchesOf(h) ==
    IF Analyzed(h) /\ "fetches" \in DOMAIN handlers[h]
    THEN handlers[h].fetches ELSE <<>>

\* C24: a failing fetch of the PR diff or of the PR file list never reaches
\* the engine as an error.  A POST /analyze/pr request that resumes from a
\* fetch whose request raised finishes, answered 200; its finding list is
\* empty when the diff fetch failed and holds the findings of the diff scan
\* alone when the file-list fetch failed; and a request that finishes with
\* an empty finding list leaves the finding list and the review list of the
\* engine as they were.
C24_FetchFailureContained ==
    [][\A h \in Handlers :
          (handlers[h].pc = "await_analyze_pr" /\ handlers'[h] # handlers[h]) =>
              /\ handlers'[h].pc = "done" =>
                     /\ Analyzed(h)'
                     /\ Len(handlers'[h].fetches) \in 1..2
                     /\ ~handlers'[h].fetches[1] =>
                            /\ Len(handlers'[h].fetches) = 1
                            /\ handlers'[h].findings = <<>>
                     /\ (Len(handlers'[h].fetches) = 2 /\ ~handlers'[h].fetches[2]) =>
                            handlers'[h].findings = handlers[h].detected
                     /\ handlers'[h].findings = <<>> =>
                            findings' = findings /\ reviews' = reviews
              /\ handlers'[h].pc # "done" =>
                     /\ handlers'[h].fetches = <<TRUE>>
                     /\ UNCHANGED <<findings, reviews, current_risk>>]_vars

\* C24 witness: on an engine that holds findings and a pending review under
\* a score at the threshold or above, one request has finished after a
\* failed diff fetch with no finding and another after a failed file-list
\* fetch with the findings of its diff.
C24_Witness ==
    \E h, g \in Handlers :
        /\ FetchesOf(h) = <<FALSE>>
        /\ handlers[h].findings = <<>>
        /\ FetchesOf(g) = <<TRUE, FALSE>>
        /\ handlers[g].findings # <<>>
        /\ findings = handlers[g].findings
        /\ GetPendingReviews(reviews) # <<>>
        /\ current_risk.overall_score >= HITL_THRESHOLD_SCORE

====
